---------------------------- MODULE Spec2Model ----------------------------
(***************************************************************************)
(* ember-data-sails: the Sails socket service, the socket adapter's CSRF   *)
(* token coordination and subscription batching, and the dispatch of       *)
(* inbound socket messages to the store.                                   *)
(*                                                                         *)
(* Every method of the source is an operator from a state record to a      *)
(* state record, so that a handler that calls other methods is the         *)
(* composition of their operators.  An action applies one handler to the   *)
(* current state and commits the result.                                   *)
(***************************************************************************)
EXTENDS Integers, Sequences, FiniteSets, TLC

(***************************************************************************)
(* Bounds of the model.                                                    *)
(***************************************************************************)
MaxFetches == 2
MaxUserRequests == 2
MaxSubscribeRequests == 2
MaxId == 1
MaxSchedules == 4
TickMs == 25
MaxAjax == 1
MaxBatchSchedules == 2

(***************************************************************************)
(* Program constants.                                                      *)
(***************************************************************************)
DebounceDelay == 50
SubscriptionMark == 0

(***************************************************************************)
(* Values: null, a CSRF token, the empty token, response data, an error.   *)
(* The server issues a fresh token for every fetch: the token of the fetch *)
(* made by request r is Token(r).                                          *)
(***************************************************************************)
Null == << "null", 0 >>
EmptyToken == << "", 0 >>
Token(r) == << "token", r >>
Data == << "data", 0 >>
JwrError == << "error", 1 >>
DestroyedError == << "error", 2 >>
EmptyTokenError == << "error", 3 >>
CsrfError == << "error", 4 >>
POST == << "POST", 0 >>
SocketSubscribe == << "/socket/subscribe", 0 >>
Ids == 0 .. MaxId

(***************************************************************************)
(* Strings are sequences of one-character strings so that camelize,        *)
(* pluralize and toLowerCase can be computed.                              *)
(***************************************************************************)
Separators == {"-", "_", ".", " "}
UpperOf == [c \in {"a", "b", "c", "d", "e", "t", "o", "g", "p", "x", "s"} |->
              CASE c = "a" -> "A" [] c = "b" -> "B" [] c = "c" -> "C"
                [] c = "d" -> "D" [] c = "e" -> "E" [] c = "t" -> "T"
                [] c = "o" -> "O" [] c = "g" -> "G" [] c = "p" -> "P"
                [] c = "x" -> "X" [] c = "s" -> "S"]

toUpperCase(c) == IF c \in DOMAIN UpperOf THEN UpperOf[c] ELSE c

toLowerCase(c) ==
    IF \E l \in DOMAIN UpperOf : UpperOf[l] = c
    THEN CHOOSE l \in DOMAIN UpperOf : UpperOf[l] = c
    ELSE c

upperCaseString(str) == [i \in 1 .. Len(str) |-> toUpperCase(str[i])]

lowerCaseString(str) == [i \in 1 .. Len(str) |-> toLowerCase(str[i])]

RECURSIVE camelizeFrom(_, _, _)
camelizeFrom(str, i, upperNext) ==
    IF i > Len(str) THEN << >>
    ELSE IF str[i] \in Separators THEN camelizeFrom(str, i + 1, TRUE)
    ELSE << (IF upperNext THEN toUpperCase(str[i]) ELSE str[i]) >>
           \o camelizeFrom(str, i + 1, FALSE)

camelize(str) ==
    LET replaced == camelizeFrom(str, 1, FALSE)
    IN  IF replaced = << >> THEN replaced
        ELSE << toLowerCase(replaced[1]) >> \o Tail(replaced)

pluralize(str) ==
    IF str # << >> /\ str[Len(str)] \in {"s", "x"}
    THEN str \o << "e", "s" >>
    ELSE str \o << "s" >>

ModelNames == { << "c", "a", "t" >>, << "d", "o", "g", "-", "t", "a", "g" >> }
eventNameOf(model) == lowerCaseString(camelize(model))
Events == { eventNameOf(m) : m \in ModelNames }
Keys == { camelize(m) : m \in ModelNames }

\* store.modelFor(name): the model class of a dasherized or camelized name
modelFor(name) == CHOOSE m \in ModelNames : camelize(m) = camelize(name)

Verbs == {"created", "updated", "destroyed", "none"}

VARIABLES
    \* SailsBaseAdapter / SailsSocketAdapter
    useCSRF, csrfToken, csrfTokenLoadingPromise, subscribeMethod,
    subscribeEndpoint,
    scheduledSubscriptions, debounceLeft, thens,
    \* SailsSocketService
    alive, isInitialized, isConnected, sailsSocket, raw, rawListeners,
    listeners, handlers, waitingForSockets, didConnectOnce,
    loadTimers, readyNext, waitTimers, connectNext, ioReady,
    pendingOperationCount, requests,
    \* store
    store, pushSubscribes,
    \* ajax calls of the adapter and the last checkCSRF call
    ajaxCalls, lastCheck,
    \* observation of the run
    connectCalls, connects, csrfCalls, schedules, sinceLast,
    inWindow, flushes, dropped, lastDispatch,
    \* SailsSerializer: its cache of the adapters and its last
    \* normalizeResponse call
    modelsUsingSailsSocketAdapter, lastNormalize,
    \* the requests whose callback _connectedSocket has called, in the order
    \* of the calls
    invoked

vars == << useCSRF, csrfToken, csrfTokenLoadingPromise, subscribeMethod,
           subscribeEndpoint,
           scheduledSubscriptions, debounceLeft, thens,
           alive, isInitialized, isConnected, sailsSocket, raw, rawListeners,
           listeners, handlers, waitingForSockets, didConnectOnce,
           loadTimers, readyNext, waitTimers, connectNext, ioReady,
           pendingOperationCount, requests, store, pushSubscribes,
           ajaxCalls, lastCheck,
           connectCalls, connects, csrfCalls, schedules, sinceLast,
           inWindow, flushes, dropped, lastDispatch,
           modelsUsingSailsSocketAdapter, lastNormalize, invoked >>

\* the current state as one record
State ==
    [ useCSRF |-> useCSRF, csrfToken |-> csrfToken,
      csrfTokenLoadingPromise |-> csrfTokenLoadingPromise,
      subscribeMethod |-> subscribeMethod,
      subscribeEndpoint |-> subscribeEndpoint,
      scheduledSubscriptions |-> scheduledSubscriptions,
      debounceLeft |-> debounceLeft, thens |-> thens,
      alive |-> alive, isInitialized |-> isInitialized,
      isConnected |-> isConnected, sailsSocket |-> sailsSocket, raw |-> raw,
      rawListeners |-> rawListeners, listeners |-> listeners,
      handlers |-> handlers, waitingForSockets |-> waitingForSockets,
      didConnectOnce |-> didConnectOnce, loadTimers |-> loadTimers,
      readyNext |-> readyNext, waitTimers |-> waitTimers,
      connectNext |-> connectNext, ioReady |-> ioReady,
      pendingOperationCount |-> pendingOperationCount,
      requests |-> requests, store |-> store,
      pushSubscribes |-> pushSubscribes,
      ajaxCalls |-> ajaxCalls, lastCheck |-> lastCheck,
      connectCalls |-> connectCalls,
      connects |-> connects, csrfCalls |-> csrfCalls,
      schedules |-> schedules, sinceLast |-> sinceLast,
      inWindow |-> inWindow, flushes |-> flushes, dropped |-> dropped,
      lastDispatch |-> lastDispatch,
      modelsUsingSailsSocketAdapter |-> modelsUsingSailsSocketAdapter,
      lastNormalize |-> lastNormalize, invoked |-> invoked ]

Commit(t) ==
    /\ useCSRF' = t.useCSRF
    /\ csrfToken' = t.csrfToken
    /\ csrfTokenLoadingPromise' = t.csrfTokenLoadingPromise
    /\ subscribeMethod' = t.subscribeMethod
    /\ subscribeEndpoint' = t.subscribeEndpoint
    /\ scheduledSubscriptions' = t.scheduledSubscriptions
    /\ debounceLeft' = t.debounceLeft
    /\ thens' = t.thens
    /\ alive' = t.alive
    /\ isInitialized' = t.isInitialized
    /\ isConnected' = t.isConnected
    /\ sailsSocket' = t.sailsSocket
    /\ raw' = t.raw
    /\ rawListeners' = t.rawListeners
    /\ listeners' = t.listeners
    /\ handlers' = t.handlers
    /\ waitingForSockets' = t.waitingForSockets
    /\ didConnectOnce' = t.didConnectOnce
    /\ loadTimers' = t.loadTimers
    /\ readyNext' = t.readyNext
    /\ waitTimers' = t.waitTimers
    /\ connectNext' = t.connectNext
    /\ ioReady' = t.ioReady
    /\ pendingOperationCount' = t.pendingOperationCount
    /\ requests' = t.requests
    /\ store' = t.store
    /\ pushSubscribes' = t.pushSubscribes
    /\ ajaxCalls' = t.ajaxCalls
    /\ lastCheck' = t.lastCheck
    /\ connectCalls' = t.connectCalls
    /\ connects' = t.connects
    /\ csrfCalls' = t.csrfCalls
    /\ schedules' = t.schedules
    /\ sinceLast' = t.sinceLast
    /\ inWindow' = t.inWindow
    /\ flushes' = t.flushes
    /\ dropped' = t.dropped
    /\ lastDispatch' = t.lastDispatch
    /\ modelsUsingSailsSocketAdapter' = t.modelsUsingSailsSocketAdapter
    /\ lastNormalize' = t.lastNormalize
    /\ invoked' = t.invoked


(***************************************************************************)
(* Values                                                                  *)
(***************************************************************************)
Truthy(v) == v \notin {Null, EmptyToken}
Min(a, b) == IF a < b THEN a ELSE b
EmptyObject == [k \in {} |-> 0]
NoPayload == [models |-> EmptyObject, csrf |-> Null]
NoRaw == [present |-> FALSE, connected |-> FALSE, connecting |-> FALSE,
          handlers |-> FALSE]
NewRaw == [present |-> TRUE, connected |-> FALSE, connecting |-> TRUE,
           handlers |-> FALSE]
\* a data object: ref is its identity (0: there is none), csrf its _csrf
NoData == [ref |-> 0, csrf |-> Null]
CallerData == [ref |-> 1, csrf |-> Null]
\* the object ajax creates for options.data
AjaxData == [ref |-> 2, csrf |-> Null]
\* the options of an ajax call: not given, {} or { data: {} }
NoOptions == [given |-> FALSE, data |-> NoData]
EmptyOptions == [given |-> TRUE, data |-> NoData]
DataOptions == [given |-> TRUE, data |-> CallerData]
OptionsOfCaller == {NoOptions, EmptyOptions, DataOptions}
GET == << "G", "E", "T" >>
Methods == { << "g", "e", "t" >>, << "p", "o", "s", "t" >> }
Urls == {"/cats", "/cats/1"}
NotSent == [url |-> "", method |-> << >>, options |-> NoOptions]
\* a response body: the properties error, model, summary, status and errors
\* it has are the bits 0 .. 4 of its number
Response(n) == << "response", n >>
ResponseShapes == {15, 23, 31}
AjaxResponses == {Data} \cup { Response(n) : n \in ResponseShapes }
Has(data, bit) == data[1] = "response" /\ (data[2] \div (2 ^ bit)) % 2 = 1
NoCheck == [called |-> FALSE, useCSRF |-> FALSE, token |-> Null,
            given |-> NoData, data |-> NoData, returned |-> 0,
            threw |-> FALSE]

NoDispatch == [event |-> << >>, verb |-> "none", id |-> 0, dataId |-> 0,
               triggered |-> << >>, pushes |-> << >>, unloads |-> << >>]

\* the requests of a kind that the socket has not answered yet
OutstandingOf(s, kind) ==
    { r \in 1 .. Len(s.requests) :
        s.requests[r].kind = kind /\ s.requests[r].settled = "pending" }

(***************************************************************************)
(* SailsSocketService                                                      *)
(***************************************************************************)
\* _load: poll until the sails.io.js script has set io.sails.emberDataSailsReady
load(s) ==
    IF s.ioReady
    THEN [s EXCEPT !.readyNext = @ + 1]
    ELSE [s EXCEPT !.loadTimers = @ + 1]

\* waitObject: the closure of _handleSocketReady and of _reconnect
waitObject(s) ==
    IF s.raw.present
    THEN [s EXCEPT !.raw.handlers = TRUE,
                   !.connectNext = IF s.raw.connected THEN @ + 1 ELSE @]
    ELSE [s EXCEPT !.waitTimers = @ + 1]

\* _reconnect: the raw socket is replaced by a new one
reconnect(s) ==
    IF s.raw.present /\ ~s.raw.connected /\ ~s.raw.connecting
    THEN waitObject([s EXCEPT !.raw = NewRaw,
                              !.rawListeners = [e \in Events |-> 0]])
    ELSE s

\* _connectedSocket that loads or reconnects for every waiting callback
connectedSocket_everyWaiter(s, rid) ==
    IF ~s.alive
    THEN [s EXCEPT !.requests[rid].stage = "nextError"]
    ELSE IF s.isConnected
    THEN [s EXCEPT !.requests[rid].stage = "next"]
    ELSE LET s1 == [s EXCEPT !.requests[rid].stage = "waiting",
                             !.waitingForSockets = Append(@, rid)]
             s2 == [s1 EXCEPT !.didConnectOnce = @ + 1]
         IN  IF s2.isInitialized THEN reconnect(s2) ELSE load(s2)

\* _connectedSocket, its callback being the one of request rid
connectedSocket(s, rid) ==
    IF ~s.alive
    THEN [s EXCEPT !.requests[rid].stage = "nextError"]
    ELSE IF s.isConnected
    THEN [s EXCEPT !.requests[rid].stage = "next"]
    ELSE LET s1 == [s EXCEPT !.requests[rid].stage = "waiting",
                             !.waitingForSockets = Append(@, rid)]
             s2 == [s1 EXCEPT !.didConnectOnce = @ + 1]
         IN  IF Len(s1.waitingForSockets) > 1 THEN s1
             ELSE IF s2.isInitialized THEN reconnect(s2) ELSE load(s2)

\* request: one more pending operation, then wait for the connected socket
request(s, kind, payload) ==
    LET rid == Len(s.requests) + 1
        s1 == [s EXCEPT !.pendingOperationCount = @ + 1,
                        !.requests = Append(@, [kind |-> kind,
                                                stage |-> "new",
                                                payload |-> payload,
                                                settled |-> "pending",
                                                value |-> Null,
                                                sentConnected |-> FALSE])]
    IN  connectedSocket(s1, rid)

\* checkCSRF followed by the subscribe request: the callback that
\* _subscribeScheduled chains on fetchCSRFToken()
subscribeThen(s, payload) ==
    IF s.useCSRF /\ ~Truthy(s.csrfToken)
    THEN [s EXCEPT !.dropped = @ \cup {payload.models}]
    ELSE request(s, "subscribe",
                 [payload EXCEPT !.csrf = IF s.useCSRF THEN s.csrfToken
                                          ELSE Null])

\* checkCSRF that returns the data when there is no token
checkCSRF_noThrow(s, data) ==
    IF ~s.useCSRF THEN [data |-> data, returned |-> data.ref, threw |-> FALSE]
    ELSE [data |-> [data EXCEPT !.csrf = s.csrfToken],
          returned |-> data.ref, threw |-> FALSE]

\* checkCSRF(data): the object after the call and whether the call threw
checkCSRF(s, data) ==
    IF ~s.useCSRF THEN [data |-> data, returned |-> data.ref, threw |-> FALSE]
    ELSE IF ~Truthy(s.csrfToken)
    THEN [data |-> data, returned |-> 0, threw |-> TRUE]
    ELSE [data |-> [data EXCEPT !.csrf = s.csrfToken],
          returned |-> data.ref, threw |-> FALSE]

\* processRequest of ajax call a: the transport of the socket adapter,
\* _request, sends options.data with the socket service
processRequest(s, a) ==
    LET c == s.ajaxCalls[a]
        s1 == request(s, "ajax", [models |-> EmptyObject,
                                  csrf |-> c.options.data.csrf])
    IN  [s1 EXCEPT !.ajaxCalls[a].rid = Len(s1.requests),
                   !.ajaxCalls[a].sent = [url |-> c.url, method |-> c.method,
                                          options |-> c.options]]

\* the callback of ajax without checkCSRF
ajaxThen_noCheck(s, a) == processRequest(s, a)

\* the callback ajax chains on fetchCSRFToken() for a method other than GET
ajaxThen(s, a) ==
    LET chk == checkCSRF(s, s.ajaxCalls[a].options.data)
    IN  IF chk.threw
        THEN [s EXCEPT !.ajaxCalls[a].settled = "rejected",
                       !.ajaxCalls[a].value = CsrfError]
        ELSE processRequest([s EXCEPT !.ajaxCalls[a].options.data = chk.data],
                            a)

RECURSIVE runThens(_, _)
runThens(s, cbs) ==
    IF cbs = << >> THEN s
    ELSE runThens(IF Head(cbs).ajax # 0
                  THEN ajaxThen(s, Head(cbs).ajax)
                  ELSE subscribeThen(s, Head(cbs).payload),
                  Tail(cbs))

\* the chain of fetchCSRFToken whose success handler does not store the token
fetchSettled_noStore(s, rid, ok, value) ==
    LET good == ok /\ Truthy(value)
        error == IF ok THEN EmptyTokenError ELSE value
        s1 == [s EXCEPT !.requests[rid].settled = "fulfilled",
                        !.requests[rid].value = IF good THEN value ELSE error]
        s2 == [s1 EXCEPT !.csrfTokenLoadingPromise = 0,
                         !.requests[rid].stage = "done"]
        mine == SelectSeq(s2.thens, LAMBDA c : c.promise = rid)
        rest == SelectSeq(s2.thens, LAMBDA c : c.promise # rid)
    IN  runThens([s2 EXCEPT !.thens = rest], mine)

\* the chain of fetchCSRFToken without its finally after a failure
fetchSettled_noFinally(s, rid, ok, value) ==
    LET good == ok /\ Truthy(value)
        error == IF ok THEN EmptyTokenError ELSE value
        s1 == IF good
              THEN [s EXCEPT !.csrfToken = value,
                             !.requests[rid].settled = "fulfilled",
                             !.requests[rid].value = value]
              ELSE [s EXCEPT !.requests[rid].settled = "fulfilled",
                             !.requests[rid].value = error]
        s2 == [s1 EXCEPT !.csrfTokenLoadingPromise = IF good THEN 0 ELSE @,
                         !.requests[rid].stage = "done"]
        mine == SelectSeq(s2.thens, LAMBDA c : c.promise = rid)
        rest == SelectSeq(s2.thens, LAMBDA c : c.promise # rid)
    IN  runThens([s2 EXCEPT !.thens = rest], mine)

\* the then / catch / finally chain of fetchCSRFToken, run when the
\* request of _fetchCSRFToken settles
fetchSettled(s, rid, ok, value) ==
    LET good == ok /\ Truthy(value)
        error == IF ok THEN EmptyTokenError ELSE value
        s1 == IF good
              THEN [s EXCEPT !.csrfToken = value,
                             !.requests[rid].settled = "fulfilled",
                             !.requests[rid].value = value]
              ELSE [s EXCEPT !.requests[rid].settled = "fulfilled",
                             !.requests[rid].value = error]
        s2 == [s1 EXCEPT !.csrfTokenLoadingPromise = 0,
                         !.requests[rid].stage = "done"]
        mine == SelectSeq(s2.thens, LAMBDA c : c.promise = rid)
        rest == SelectSeq(s2.thens, LAMBDA c : c.promise # rid)
    IN  runThens([s2 EXCEPT !.thens = rest], mine)

\* isErrorObject that is satisfied with error, model and summary
isErrorObject_noStatus(data) ==
    Has(data, 0) /\ Has(data, 1) /\ Has(data, 2)

isErrorObject(data) ==
    Has(data, 0) /\ Has(data, 1) /\ Has(data, 2) /\ Has(data, 3)

\* new InvalidError(this.formatError(response))
InvalidError(response) == << "invalid", response[2] >>

\* the then / catch chain of processRequest, run when the transport settles
ajaxSettled(s, rid, ok, value) ==
    LET a == CHOOSE i \in 1 .. Len(s.ajaxCalls) : s.ajaxCalls[i].rid = rid
        s1 == [s EXCEPT !.requests[rid].stage = "done",
                        !.requests[rid].settled = IF ok THEN "fulfilled"
                                                  ELSE "rejected",
                        !.requests[rid].value = value]
    IN  IF ok /\ ~isErrorObject(value)
        THEN [s1 EXCEPT !.ajaxCalls[a].settled = "fulfilled",
                        !.ajaxCalls[a].value = value]
        ELSE [s1 EXCEPT !.ajaxCalls[a].settled = "rejected",
                        !.ajaxCalls[a].value =
                            IF ok /\ Has(value, 4) THEN InvalidError(value)
                            ELSE value]

\* the promise of request rid settles
settle(s, rid, ok, value) ==
    IF s.requests[rid].kind = "csrf"
    THEN fetchSettled(s, rid, ok, value)
    ELSE IF s.requests[rid].kind = "ajax"
    THEN ajaxSettled(s, rid, ok, value)
    ELSE [s EXCEPT !.requests[rid].stage = "done",
                   !.requests[rid].settled = IF ok THEN "fulfilled"
                                             ELSE "rejected",
                   !.requests[rid].value = value]

\* the callback of request that rejects without decrementing
requestCallback_noDecrement(s, rid, error) ==
    IF s.alive /\ error = Null
    THEN [s EXCEPT !.requests[rid].stage = "sent",
                   !.requests[rid].sentConnected = s.isConnected,
                   !.invoked = Append(@, rid)]
    ELSE settle([s EXCEPT !.invoked = Append(@, rid)], rid, FALSE,
                IF error # Null THEN error ELSE DestroyedError)

\* isBusy
isBusy(s) == ~s.isInitialized \/ s.pendingOperationCount > 0

\* the callback request gives to _connectedSocket
requestCallback(s, rid, error) ==
    IF s.alive /\ error = Null
    THEN [s EXCEPT !.requests[rid].stage = "sent",
                   !.requests[rid].sentConnected = s.isConnected,
                   !.invoked = Append(@, rid)]
    ELSE settle([s EXCEPT !.pendingOperationCount = @ - 1,
                          !.invoked = Append(@, rid)], rid, FALSE,
                IF error # Null THEN error ELSE DestroyedError)


(***************************************************************************)
(* SailsBaseAdapter: CSRF token                                            *)
(***************************************************************************)
\* fetchCSRFToken that starts a fetch without looking at the loading promise
fetchCSRFToken_noShare(s, force) ==
    LET before == OutstandingOf(s, "csrf")
        log(t, ret, started) ==
            IF before = {} THEN t
            ELSE [t EXCEPT !.csrfCalls = @ \cup {[before |-> before,
                                                  ret |-> ret,
                                                  started |-> started]}]
    IN  IF s.useCSRF /\ (force \/ ~Truthy(s.csrfToken))
        THEN LET s1 == [s EXCEPT !.csrfToken = Null]
                 s2 == request(s1, "csrf", NoPayload)
                 rid == Len(s2.requests)
                 s3 == [s2 EXCEPT !.csrfTokenLoadingPromise = rid]
             IN  [s |-> log(s3, rid, TRUE), ret |-> rid]
        ELSE [s |-> log(s, 0, FALSE), ret |-> 0]

\* fetchCSRFToken that keeps the old token while it fetches a new one
fetchCSRFToken_keepToken(s, force) ==
    LET before == OutstandingOf(s, "csrf")
        log(t, ret, started) ==
            IF before = {} THEN t
            ELSE [t EXCEPT !.csrfCalls = @ \cup {[before |-> before,
                                                  ret |-> ret,
                                                  started |-> started]}]
    IN  IF s.useCSRF /\ (force \/ ~Truthy(s.csrfToken))
        THEN IF s.csrfTokenLoadingPromise # 0
             THEN [s |-> log(s, s.csrfTokenLoadingPromise, FALSE),
                   ret |-> s.csrfTokenLoadingPromise]
             ELSE LET s2 == request(s, "csrf", NoPayload)
                      rid == Len(s2.requests)
                      s3 == [s2 EXCEPT !.csrfTokenLoadingPromise = rid]
                  IN  [s |-> log(s3, rid, TRUE), ret |-> rid]
        ELSE [s |-> log(s, 0, FALSE), ret |-> 0]

\* fetchCSRFToken(force): the state after the call and the promise it
\* returns, 0 standing for RSVP.resolve(null) and r > 0 for the loading
\* promise whose _fetchCSRFToken is request r
fetchCSRFToken(s, force) ==
    LET before == OutstandingOf(s, "csrf")
        log(t, ret, started) ==
            IF before = {} THEN t
            ELSE [t EXCEPT !.csrfCalls = @ \cup {[before |-> before,
                                                  ret |-> ret,
                                                  started |-> started]}]
    IN  IF s.useCSRF /\ (force \/ ~Truthy(s.csrfToken))
        THEN IF s.csrfTokenLoadingPromise # 0
             THEN [s |-> log(s, s.csrfTokenLoadingPromise, FALSE),
                   ret |-> s.csrfTokenLoadingPromise]
             ELSE LET s1 == [s EXCEPT !.csrfToken = Null]
                      s2 == request(s1, "csrf", NoPayload)
                      rid == Len(s2.requests)
                      s3 == [s2 EXCEPT !.csrfTokenLoadingPromise = rid]
                  IN  [s |-> log(s3, rid, TRUE), ret |-> rid]
        ELSE [s |-> log(s, 0, FALSE), ret |-> 0]

\* a didConnect listener that forces the fetch
didConnectListener_forced(s) == fetchCSRFToken(s, TRUE).s

\* the listener the socket adapter's constructor registers on didConnect:
\* on(name, target, method) drops the fourth argument and didConnect is
\* triggered without arguments, so force is undefined
didConnectListener(s) == fetchCSRFToken(s, FALSE).s

\* isLoadingCSRF: Boolean(this._csrfTokenLoadingPromise)
isLoadingCSRF(s) == s.csrfTokenLoadingPromise # 0

\* ajax that fetches a token for every call
ajax_alwaysFetch(s, url, method, options) ==
    LET a == Len(s.ajaxCalls) + 1
        upper == upperCaseString(method)
        opts1 == IF options.given THEN options ELSE EmptyOptions
        opts2 == IF opts1.data.ref = 0 /\ upper # GET
                 THEN [opts1 EXCEPT !.data = AjaxData] ELSE opts1
        call == [url |-> url, method |-> upper, givenMethod |-> method,
                 given |-> options,
                 options |-> opts2, fetch |-> "none", rid |-> 0,
                 sent |-> NotSent, settled |-> "pending", value |-> Null]
        s1 == [s EXCEPT !.ajaxCalls = Append(@, call)]
        r == fetchCSRFToken(s1, TRUE)
        fetch == IF Len(r.s.requests) > Len(s1.requests) THEN "started"
                 ELSE IF r.ret # 0 THEN "joined" ELSE "none"
    IN  [r.s EXCEPT !.ajaxCalls[a].fetch = fetch,
                    !.thens = Append(@, [promise |-> r.ret,
                                         payload |-> NoPayload,
                                         ajax |-> a])]

\* ajax(url, method, options)
ajax(s, url, method, options) ==
    LET a == Len(s.ajaxCalls) + 1
        upper == upperCaseString(method)
        opts1 == IF options.given THEN options ELSE EmptyOptions
        opts2 == IF opts1.data.ref = 0 /\ upper # GET
                 THEN [opts1 EXCEPT !.data = AjaxData] ELSE opts1
        call == [url |-> url, method |-> upper, givenMethod |-> method,
                 given |-> options,
                 options |-> opts2, fetch |-> "none", rid |-> 0,
                 sent |-> NotSent, settled |-> "pending", value |-> Null]
        s1 == [s EXCEPT !.ajaxCalls = Append(@, call)]
    IN  IF upper # GET
        THEN LET r == fetchCSRFToken(s1, FALSE)
                 fetch == IF Len(r.s.requests) > Len(s1.requests)
                          THEN "started"
                          ELSE IF r.ret # 0 THEN "joined" ELSE "none"
             IN  [r.s EXCEPT !.ajaxCalls[a].fetch = fetch,
                             !.thens = Append(@, [promise |-> r.ret,
                                                  payload |-> NoPayload,
                                                  ajax |-> a])]
        ELSE processRequest(s1, a)

(***************************************************************************)
(* SailsSocketService: listeners and socket events                         *)
(***************************************************************************)
\* listenFor that leaves the listener on the raw socket when it removes
listenFor_keepRaw(s, event, listen) ==
    LET known == s.listeners[event] # "none"
        sockMethod == IF listen /\ ~known THEN "add"
                      ELSE IF ~listen /\ known THEN "remove"
                      ELSE "none"
    IN  IF sockMethod = "none" THEN [s |-> s, ret |-> FALSE]
        ELSE IF s.isConnected
        THEN IF listen
             THEN [s |-> [s EXCEPT !.listeners[event] = "listening",
                                   !.rawListeners[event] = @ + 1],
                   ret |-> TRUE]
             ELSE [s |-> [s EXCEPT !.listeners[event] = "none"],
                   ret |-> TRUE]
        ELSE [s |-> [s EXCEPT !.listeners[event] =
                                  IF listen THEN "idle" ELSE "none"],
              ret |-> TRUE]

listenFor(s, event, listen) ==
    LET known == s.listeners[event] # "none"
        sockMethod == IF listen /\ ~known THEN "add"
                      ELSE IF ~listen /\ known THEN "remove"
                      ELSE "none"
    IN  IF sockMethod = "none" THEN [s |-> s, ret |-> FALSE]
        ELSE IF s.isConnected
        THEN IF listen
             THEN [s |-> [s EXCEPT !.listeners[event] = "listening",
                                   !.rawListeners[event] = @ + 1],
                   ret |-> TRUE]
             ELSE [s |-> [s EXCEPT !.listeners[event] = "none",
                                   !.rawListeners[event] =
                                       IF @ > 0 THEN @ - 1 ELSE 0],
                   ret |-> TRUE]
        ELSE [s |-> [s EXCEPT !.listeners[event] =
                                  IF listen THEN "idle" ELSE "none"],
              ret |-> TRUE]

bindListeners(s) ==
    [s EXCEPT !.rawListeners =
                  [e \in Events |-> IF s.listeners[e] = "idle"
                                    THEN s.rawListeners[e] + 1
                                    ELSE s.rawListeners[e]],
              !.listeners =
                  [e \in Events |-> IF s.listeners[e] = "idle"
                                    THEN "listening" ELSE s.listeners[e]]]

\* _unbindListeners that leaves isListening set
unbindListeners_keepFlag(s) ==
    [s EXCEPT !.rawListeners =
                  [e \in Events |-> IF s.listeners[e] = "listening"
                                       /\ s.rawListeners[e] > 0
                                    THEN s.rawListeners[e] - 1
                                    ELSE s.rawListeners[e]]]

unbindListeners(s) ==
    [s EXCEPT !.rawListeners =
                  [e \in Events |-> IF s.listeners[e] = "listening"
                                       /\ s.rawListeners[e] > 0
                                    THEN s.rawListeners[e] - 1
                                    ELSE s.rawListeners[e]],
              !.listeners =
                  [e \in Events |-> IF s.listeners[e] = "listening"
                                    THEN "idle" ELSE s.listeners[e]]]

\* the loop of the one-shot didConnect handler of _connectedSocket
RECURSIVE callWaiting(_, _)
callWaiting(s, callbacks) ==
    IF callbacks = << >> THEN s
    ELSE callWaiting(requestCallback(s, Head(callbacks), Null),
                     Tail(callbacks))

\* the one-shot didConnect handler: the waiting list is deleted, then the
\* callbacks are called in the order of the list
flushWaiting(s) ==
    callWaiting([s EXCEPT !.waitingForSockets = << >>], s.waitingForSockets)

handleSocketConnect(s) ==
    IF ~s.alive THEN s
    ELSE LET s1 == bindListeners(s)
             s2 == [s1 EXCEPT !.isConnected = TRUE,
                              !.connects = Min(@ + 1, 2)]
             s3 == didConnectListener(s2)
         IN  IF s3.didConnectOnce > 0
             THEN flushWaiting([s3 EXCEPT !.didConnectOnce = 0])
             ELSE s3

handleSocketDisconnect(s) ==
    IF ~s.alive THEN s
    ELSE unbindListeners([s EXCEPT !.isConnected = FALSE])

\* _handleSocketReady that does not set isInitialized
handleSocketReady_noInit(s, rawNow) ==
    IF ~s.alive THEN s
    ELSE waitObject([s EXCEPT !.sailsSocket = "object",
                              !.connectCalls = @ + 1,
                              !.raw = IF rawNow THEN NewRaw ELSE NoRaw,
                              !.rawListeners = [e \in Events |-> 0]])

\* _handleSocketReady; rawNow tells whether io.sails.connect returns a socket
\* whose _raw is already there
handleSocketReady(s, rawNow) ==
    IF ~s.alive THEN s
    ELSE waitObject([s EXCEPT !.isInitialized = TRUE,
                              !.sailsSocket = "object",
                              !.connectCalls = @ + 1,
                              !.raw = IF rawNow THEN NewRaw ELSE NoRaw,
                              !.rawListeners = [e \in Events |-> 0]])

(***************************************************************************)
(* SailsSocketAdapter: subscriptions and inbound messages                  *)
(***************************************************************************)
IsNull(obj) == DOMAIN obj = {}

RECURSIVE SortedSeq(_)
SortedSeq(S) ==
    IF S = {} THEN << >>
    ELSE LET m == CHOOSE x \in S : \A y \in S : x <= y
         IN  << m >> \o SortedSeq(S \ {m})

\* Object.keys of an object whose keys are integer strings
ObjectKeys(obj) == SortedSeq(DOMAIN obj)

\* the test of this._scheduledSubscriptions[key][id]
isScheduled(obj, id) == id \in DOMAIN obj /\ obj[id] # 0

shouldSubscribe(type, id) == TRUE

listenToSocket(s, model) ==
    LET eventName == eventNameOf(model)
        r == listenFor(s, eventName, TRUE)
    IN  IF r.ret
        THEN [r.s EXCEPT !.handlers[eventName] = Append(@, modelFor(model))]
        ELSE r.s

scheduleSubscribe(s, type, id) ==
    IF id # 0 /\ shouldSubscribe(type, id)
    THEN LET key == camelize(type)
             obj == IF key \in DOMAIN s.scheduledSubscriptions
                    THEN s.scheduledSubscriptions[key] ELSE EmptyObject
             marked == [i \in DOMAIN obj \cup {id} |->
                          IF i = id THEN SubscriptionMark ELSE obj[i]]
             s1 == [s EXCEPT !.schedules =
                                 [n |-> @.n + 1,
                                  targets |-> @.targets \cup {<< key, id >>}],
                             !.inWindow = @ /\ (s.schedules.n = 0
                                                \/ s.sinceLast < DebounceDelay),
                             !.sinceLast = 0]
         IN  IF ~isScheduled(obj, id)
             THEN [s1 EXCEPT !.scheduledSubscriptions =
                                 [k \in DOMAIN @ \cup {key} |->
                                    IF k = key THEN marked ELSE @[k]],
                             !.debounceLeft = DebounceDelay]
             ELSE s1
    ELSE s

RECURSIVE listenToAll(_, _)
listenToAll(s, keys) ==
    IF keys = {} THEN s
    ELSE LET k == CHOOSE x \in keys : TRUE
         IN  listenToAll(listenToSocket(s, k), keys \ {k})

\* _subscribeScheduled that asks the API when either property is set
subscribeScheduled_eitherSet(s) ==
    IF IsNull(s.scheduledSubscriptions) THEN s
    ELSE LET data == s.scheduledSubscriptions
             payload == [models |-> [k \in DOMAIN data |-> ObjectKeys(data[k])],
                         csrf |-> Null]
             s1 == [s EXCEPT !.scheduledSubscriptions = EmptyObject,
                             !.flushes = Min(@ + 1, 2)]
             s2 == listenToAll(s1, DOMAIN data)
         IN  IF Truthy(s.subscribeEndpoint) \/ Truthy(s.subscribeMethod)
             THEN LET r == fetchCSRFToken(s2, FALSE)
                  IN  IF r.ret = 0
                      THEN subscribeThen(r.s, payload)
                      ELSE [r.s EXCEPT !.thens =
                                Append(@, [promise |-> r.ret,
                                           payload |-> payload,
                                           ajax |-> 0])]
             ELSE s2

\* _subscribeScheduled that leaves the scheduled subscriptions in place
subscribeScheduled_keepPending(s) ==
    IF IsNull(s.scheduledSubscriptions) THEN s
    ELSE LET data == s.scheduledSubscriptions
             payload == [models |-> [k \in DOMAIN data |-> ObjectKeys(data[k])],
                         csrf |-> Null]
             s1 == [s EXCEPT !.flushes = Min(@ + 1, 2)]
             s2 == listenToAll(s1, DOMAIN data)
         IN  IF Truthy(s.subscribeEndpoint) /\ Truthy(s.subscribeMethod)
             THEN LET r == fetchCSRFToken(s2, FALSE)
                  IN  IF r.ret = 0
                      THEN subscribeThen(r.s, payload)
                      ELSE [r.s EXCEPT !.thens =
                                Append(@, [promise |-> r.ret,
                                           payload |-> payload,
                                           ajax |-> 0])]
             ELSE s2

\* _subscribeScheduled: the flush of the scheduled subscriptions
subscribeScheduled(s) ==
    IF IsNull(s.scheduledSubscriptions) THEN s
    ELSE LET data == s.scheduledSubscriptions
             payload == [models |-> [k \in DOMAIN data |-> ObjectKeys(data[k])],
                         csrf |-> Null]
             s1 == [s EXCEPT !.scheduledSubscriptions = EmptyObject,
                             !.flushes = Min(@ + 1, 2)]
             s2 == listenToAll(s1, DOMAIN data)
         IN  IF Truthy(s.subscribeEndpoint) /\ Truthy(s.subscribeMethod)
             THEN LET r == fetchCSRFToken(s2, FALSE)
                  IN  IF r.ret = 0
                      THEN subscribeThen(r.s, payload)
                      ELSE [r.s EXCEPT !.thens =
                                Append(@, [promise |-> r.ret,
                                           payload |-> payload,
                                           ajax |-> 0])]
             ELSE s2

\* NewStore.push of one record: the record is loaded and, when it has an
\* id and its adapter is the socket adapter, a subscription to it is
\* scheduled; _pushSubscribes is not read
push(s, type, id, socketAdapter) ==
    IF id # 0
    THEN LET s1 == [s EXCEPT !.store[<< type, id >>] =
                                 IF @ = "absent" THEN "clean" ELSE @]
         IN  IF socketAdapter THEN scheduleSubscribe(s1, type, id) ELSE s1
    ELSE s

\* super.pushPayload: the records of the payload are pushed in their order
RECURSIVE pushRecords(_, _, _, _)
pushRecords(s, type, records, socketAdapter) ==
    IF records = << >> THEN s
    ELSE pushRecords(push(s, type, Head(records), socketAdapter),
                     type, Tail(records), socketAdapter)

\* the values of the optional trailing argument of pushPayload
TrailingArguments == {"omitted", "true", "false"}

\* NewStore.pushPayload: _pushSubscribes holds the trailing boolean (false
\* when omitted) during the push and is restored after it
pushPayload(s, type, payload, subscribe, socketAdapter) ==
    LET old == s.pushSubscribes
        sub == IF subscribe = "omitted" THEN "false" ELSE subscribe
        s1 == [s EXCEPT !.pushSubscribes = sub,
                        !.lastDispatch.pushes = Append(@, payload)]
        s2 == pushRecords(s1, type, payload.records, socketAdapter)
    IN  [s2 EXCEPT !.pushSubscribes = old]

handleSocketRecordCreated(s, type, message) ==
    LET record == IF message.dataId = 0 /\ message.id # 0
                  THEN message.id ELSE message.dataId
        payload == [key |-> pluralize(camelize(type)),
                    records |-> << record >>]
    IN  pushPayload(s, type, payload, "omitted", TRUE)

handleSocketRecordUpdated(s, type, message) ==
    handleSocketRecordCreated(s, type, message)

handleSocketRecordDeleted(s, type, message) ==
    IF message.id # 0 /\ s.store[<< type, message.id >>] = "clean"
    THEN [s EXCEPT !.store[<< type, message.id >>] = "absent",
                   !.lastDispatch.unloads = Append(@, << type, message.id >>)]
    ELSE s

\* trigger(event.verb, message): the adapter's handlers registered by
\* _listenToSocket run in the order of their registration
RECURSIVE runHandlers(_, _, _)
runHandlers(s, types, message) ==
    IF types = << >> THEN s
    ELSE LET type == Head(types)
             s1 == CASE message.verb = "created" ->
                          handleSocketRecordCreated(s, type, message)
                     [] message.verb = "updated" ->
                          handleSocketRecordUpdated(s, type, message)
                     [] message.verb = "destroyed" ->
                          handleSocketRecordDeleted(s, type, message)
                     [] OTHER -> s
         IN  runHandlers(s1, Tail(types), message)

\* the name of the event _handleSocketMessage triggers
triggerName(event, message) ==
    IF message.verb # "none" THEN event \o << ".", message.verb >> ELSE event

\* _handleSocketMessage that does not test isAlive
handleSocketMessage_notAlive(s, event, message) ==
    runHandlers(
        [s EXCEPT !.lastDispatch.triggered =
                      Append(@, triggerName(event, message))],
        s.handlers[event], message)

handleSocketMessage(s, event, message) ==
    IF ~s.alive THEN s
    ELSE runHandlers(
             [s EXCEPT !.lastDispatch.triggered =
                           Append(@, triggerName(event, message))],
             s.handlers[event], message)

RECURSIVE rawEmit(_, _, _, _)
rawEmit(s, event, message, n) ==
    IF n = 0 THEN s
    ELSE rawEmit(handleSocketMessage(s, event, message), event, message, n - 1)


(***************************************************************************)
(* SailsSerializer                                                         *)
(***************************************************************************)
\* the adapters store.adapterFor can give: the socket adapter, or an
\* adapter that has no _listenToSocket method such as SailsRESTAdapter
AdapterKinds == {"socket", "rest"}

NoNormalize == [called |-> FALSE, model |-> << >>, adapter |-> "none",
                threw |-> FALSE, normalized |-> FALSE]

\* the value kept by _modelsUsingSailsSocketAdapter for an adapter
instanceofSocketAdapter(adapter) ==
    IF adapter = "socket" THEN "true" ELSE "false"

\* normalizeResponse(store, primaryModelClass), adapter being the adapter of
\* the model: at the first call for a model the cache is written and
\* adapter._listenToSocket(modelName) is called, which is a TypeError for
\* an adapter without that method; super.normalizeResponse comes after it
normalizeResponse(s, model, adapter) ==
    LET call == [called |-> TRUE, model |-> model, adapter |-> adapter,
                 threw |-> FALSE, normalized |-> TRUE]
    IN  IF s.modelsUsingSailsSocketAdapter[model] = "undefined"
        THEN LET s1 == [s EXCEPT !.modelsUsingSailsSocketAdapter[model] =
                                     instanceofSocketAdapter(adapter)]
             IN  IF adapter = "socket"
                 THEN [listenToSocket(s1, model) EXCEPT !.lastNormalize = call]
                 ELSE [s1 EXCEPT !.lastNormalize =
                                     [call EXCEPT !.threw = TRUE,
                                                  !.normalized = FALSE]]
        ELSE [s EXCEPT !.lastNormalize = call]

(***************************************************************************)
(* Initial state: the service, the adapter and the store as constructed    *)
(***************************************************************************)
Init ==
    /\ useCSRF \in BOOLEAN
    /\ subscribeMethod \in {Null, POST}
    /\ subscribeEndpoint \in {Null, SocketSubscribe}
    /\ csrfToken = Null
    /\ csrfTokenLoadingPromise = 0
    /\ scheduledSubscriptions = EmptyObject
    /\ debounceLeft = -1
    /\ thens = << >>
    /\ alive = TRUE
    /\ isInitialized = FALSE
    /\ isConnected = FALSE
    /\ sailsSocket = "null"
    /\ raw = NoRaw
    /\ rawListeners = [e \in Events |-> 0]
    /\ listeners = [e \in Events |-> "none"]
    /\ handlers = [e \in Events |-> << >>]
    /\ waitingForSockets = << >>
    /\ didConnectOnce = 0
    /\ loadTimers = 0
    /\ readyNext = 0
    /\ waitTimers = 0
    /\ connectNext = 0
    /\ ioReady = FALSE
    /\ pendingOperationCount = 0
    /\ requests = << >>
    /\ store = [r \in ModelNames \X (1 .. MaxId) |-> "absent"]
    /\ pushSubscribes = "undefined"
    /\ ajaxCalls = << >>
    /\ lastCheck = NoCheck
    /\ connectCalls = 0
    /\ connects = 0
    /\ csrfCalls = {}
    /\ schedules = [n |-> 0, targets |-> {}]
    /\ sinceLast = 0
    /\ inWindow = TRUE
    /\ flushes = 0
    /\ dropped = {}
    /\ lastDispatch = NoDispatch
    /\ modelsUsingSailsSocketAdapter = [m \in ModelNames |-> "undefined"]
    /\ lastNormalize = NoNormalize
    /\ invoked = << >>

\* a step to state t, within the bounds of the model
CountOf(s, kind) ==
    Cardinality({ r \in 1 .. Len(s.requests) : s.requests[r].kind = kind })

Step(t) ==
    /\ CountOf(t, "csrf") <= MaxFetches
    /\ CountOf(t, "user") <= MaxUserRequests
    /\ CountOf(t, "subscribe") <= MaxSubscribeRequests
    /\ t.schedules.n <= MaxSchedules
    /\ Len(t.ajaxCalls) <= MaxAjax
    /\ Commit(t)

(***************************************************************************)
(* Operations of the application                                           *)
(***************************************************************************)
Request == Step(request(State, "user", NoPayload))

FetchCSRFToken == \E force \in BOOLEAN : Step(fetchCSRFToken(State, force).s)

Ajax ==
    \E url \in Urls, method \in Methods, options \in OptionsOfCaller :
        Step(ajax(State, url, method, options))

CheckCSRF ==
    LET chk == checkCSRF(State, CallerData)
    IN  Step([State EXCEPT !.lastCheck =
                 [called |-> TRUE, useCSRF |-> useCSRF, token |-> csrfToken,
                  given |-> CallerData, data |-> chk.data,
                  returned |-> chk.returned, threw |-> chk.threw]])

ListenFor ==
    \E event \in Events, listen \in BOOLEAN :
        Step(listenFor(State, event, listen).s)

Subscribe ==
    \E type \in ModelNames, id \in Ids : Step(scheduleSubscribe(State, type, id))

\* the application pushes a payload of one or two records of a model
Payloads ==
    { << a >> : a \in Ids } \cup { << a, b >> : a \in Ids, b \in Ids }

PushPayloadOf(type, records, subscribe, socketAdapter) ==
    Step([pushPayload(State, type,
                      [key |-> pluralize(camelize(type)), records |-> records],
                      subscribe, socketAdapter)
             EXCEPT !.lastDispatch = lastDispatch])

PushPayload ==
    \E type \in ModelNames, records \in Payloads,
       subscribe \in TrailingArguments, socketAdapter \in BOOLEAN :
        PushPayloadOf(type, records, subscribe, socketAdapter)

\* a response for a model is normalized; the adapter of a model stays the
\* same from one call to the next
NormalizeResponseOf(model, adapter) ==
    /\ modelsUsingSailsSocketAdapter[model] \in
           {"undefined", instanceofSocketAdapter(adapter)}
    /\ Step(normalizeResponse(State, model, adapter))

NormalizeResponse ==
    \E model \in ModelNames, adapter \in AdapterKinds :
        NormalizeResponseOf(model, adapter)

DirtyRecord ==
    \E r \in DOMAIN store :
        /\ store[r] = "clean"
        /\ Step([State EXCEPT !.store[r] = "dirty"])

WillDestroy ==
    /\ alive
    /\ Step(IF isConnected
            THEN handleSocketDisconnect(
                     [State EXCEPT !.alive = FALSE,
                                   !.raw.connected = FALSE,
                                   !.raw.connecting = FALSE])
            ELSE [State EXCEPT !.alive = FALSE])

(***************************************************************************)
(* The run loop: timers and next()                                         *)
(***************************************************************************)
LoadTimer ==
    /\ loadTimers > 0
    /\ Step(load([State EXCEPT !.loadTimers = @ - 1]))

ReadyNext ==
    /\ readyNext > 0
    /\ \E rawNow \in BOOLEAN :
           Step(handleSocketReady([State EXCEPT !.readyNext = @ - 1], rawNow))

WaitTimer ==
    /\ waitTimers > 0
    /\ Step(waitObject([State EXCEPT !.waitTimers = @ - 1]))

ConnectNext ==
    /\ connectNext > 0
    /\ Step(handleSocketConnect([State EXCEPT !.connectNext = @ - 1]))

RequestNext ==
    \E rid \in 1 .. Len(requests) :
        \/ /\ requests[rid].stage = "next"
           /\ Step(requestCallback(State, rid, Null))
        \/ /\ requests[rid].stage = "nextError"
           /\ Step(requestCallback(State, rid, DestroyedError))

\* a callback chained on an already resolved promise runs
ResolvedThen ==
    \E i \in 1 .. Len(thens) :
        /\ thens[i].promise = 0
        /\ \A j \in 1 .. (i - 1) : thens[j].promise # 0
        /\ Step(runThens(
                    [State EXCEPT !.thens =
                        SelectSeq(@, LAMBDA c : c # thens[i])],
                    << thens[i] >>))

Tick ==
    /\ debounceLeft # 0
    /\ debounceLeft > 0 \/ sinceLast < DebounceDelay
    /\ LET d == IF debounceLeft > 0 THEN Min(TickMs, debounceLeft) ELSE TickMs
       IN  Step([State EXCEPT !.debounceLeft = IF @ > 0 THEN @ - d ELSE @,
                              !.sinceLast = Min(@ + d, DebounceDelay)])

DebounceTimer ==
    /\ debounceLeft = 0
    /\ Step(subscribeScheduled([State EXCEPT !.debounceLeft = -1]))

(***************************************************************************)
(* The environment: the sails.io.js script, the raw socket, the server     *)
(***************************************************************************)
IoReady ==
    /\ ~ioReady
    /\ Step([State EXCEPT !.ioReady = TRUE])

RawAppears ==
    /\ sailsSocket = "object"
    /\ ~raw.present
    /\ Step([State EXCEPT !.raw = NewRaw])

RawConnect ==
    /\ raw.present /\ raw.connecting /\ ~raw.connected
    /\ LET s1 == [State EXCEPT !.raw.connected = TRUE,
                               !.raw.connecting = FALSE]
       IN  Step(IF raw.handlers THEN handleSocketConnect(s1) ELSE s1)

RawConnectFailed ==
    /\ raw.present /\ raw.connecting /\ ~raw.connected
    /\ Step([State EXCEPT !.raw.connecting = FALSE])

RawDisconnect ==
    /\ raw.present /\ raw.connected
    /\ \E again \in BOOLEAN :
           LET s1 == [State EXCEPT !.raw.connected = FALSE,
                                   !.raw.connecting = again]
           IN  Step(IF raw.handlers THEN handleSocketDisconnect(s1) ELSE s1)

SocketAnswers ==
    \E rid \in 1 .. Len(requests) :
        /\ requests[rid].stage = "sent"
        /\ raw.present /\ raw.connected
        /\ \E ok \in BOOLEAN :
             \E value \in IF ~ok THEN {JwrError}
                          ELSE IF requests[rid].kind = "csrf"
                          THEN {Token(rid), EmptyToken}
                          ELSE IF requests[rid].kind = "ajax"
                          THEN AjaxResponses
                          ELSE {Data} :
                 Step(settle([State EXCEPT !.pendingOperationCount = @ - 1],
                             rid, ok, value))

RawMessage ==
    \E event \in Events, verb \in Verbs, id \in Ids, dataId \in Ids :
        /\ raw.present /\ raw.connected
        /\ rawListeners[event] > 0
        /\ LET message == [verb |-> verb, id |-> id, dataId |-> dataId]
               s1 == [State EXCEPT !.lastDispatch =
                          [NoDispatch EXCEPT !.event = event, !.verb = verb,
                                             !.id = id, !.dataId = dataId]]
           IN  Step(rawEmit(s1, event, message, rawListeners[event]))

\* a message the raw socket still delivers to the listeners it holds when the
\* service has been destroyed
RawMessageLate ==
    \E event \in Events, verb \in Verbs, id \in Ids :
        /\ ~alive
        /\ raw.present
        /\ rawListeners[event] > 0
        /\ LET message == [verb |-> verb, id |-> id, dataId |-> id]
               s1 == [State EXCEPT !.lastDispatch =
                          [NoDispatch EXCEPT !.event = event, !.verb = verb,
                                             !.id = id, !.dataId = id]]
           IN  Step(rawEmit(s1, event, message, rawListeners[event]))

Next ==
    \/ Request
    \/ Ajax
    \/ CheckCSRF
    \/ ResolvedThen
    \/ FetchCSRFToken
    \/ ListenFor
    \/ Subscribe
    \/ PushPayload
    \/ NormalizeResponse
    \/ DirtyRecord
    \/ WillDestroy
    \/ LoadTimer
    \/ ReadyNext
    \/ WaitTimer
    \/ ConnectNext
    \/ RequestNext
    \/ Tick
    \/ DebounceTimer
    \/ IoReady
    \/ RawAppears
    \/ RawConnect
    \/ RawConnectFailed
    \/ RawDisconnect
    \/ SocketAnswers
    \/ RawMessage
    \/ RawMessageLate

Spec == Init /\ [][Next]_vars


(***************************************************************************)
(* The CSRF token of the adapter over the socket service                   *)
(***************************************************************************)
NextCsrf ==
    \/ FetchCSRFToken
    \/ WillDestroy
    \/ LoadTimer
    \/ ReadyNext
    \/ WaitTimer
    \/ ConnectNext
    \/ RequestNext
    \/ IoReady
    \/ RawAppears
    \/ RawConnect
    \/ RawConnectFailed
    \/ RawDisconnect
    \/ SocketAnswers

SpecCsrf == Init /\ [][NextCsrf]_vars

\* the adapter with the subscribeMethod and subscribeEndpoint of the class
InitDefault ==
    Init /\ subscribeMethod = POST /\ subscribeEndpoint = SocketSubscribe

\* the subscription feature is enabled
subscribeEnabled == Truthy(subscribeMethod) /\ Truthy(subscribeEndpoint)

(***************************************************************************)
(* The socket service: its requests and its listeners over connects and    *)
(* disconnects                                                             *)
(***************************************************************************)
NextListeners ==
    \/ Request
    \/ ListenFor
    \/ WillDestroy
    \/ LoadTimer
    \/ ReadyNext
    \/ WaitTimer
    \/ ConnectNext
    \/ RequestNext
    \/ IoReady
    \/ RawAppears
    \/ RawConnect
    \/ RawConnectFailed
    \/ RawDisconnect

SpecListeners == InitDefault /\ [][NextListeners]_vars


(***************************************************************************)
(* The subscriptions of the socket adapter: scheduling, the debounce timer *)
(* and the flush, over a socket that connects                              *)
(***************************************************************************)
NextSubscribe ==
    \/ Subscribe
    \/ Tick
    \/ DebounceTimer
    \/ LoadTimer
    \/ ReadyNext
    \/ WaitTimer
    \/ ConnectNext
    \/ RequestNext
    \/ IoReady
    \/ RawAppears
    \/ RawConnect
    \/ SocketAnswers

SpecSubscribe == Init /\ [][NextSubscribe]_vars


(***************************************************************************)
(* The messages of the socket: the adapter listens for the models it has   *)
(* subscribed to and the handlers of a message change the store            *)
(***************************************************************************)
NextMessages ==
    \/ Subscribe
    \/ ListenFor
    \/ DirtyRecord
    \/ Tick
    \/ DebounceTimer
    \/ LoadTimer
    \/ ReadyNext
    \/ WaitTimer
    \/ ConnectNext
    \/ IoReady
    \/ RawAppears
    \/ RawConnect
    \/ RawMessage

\* the adapter as it is configured by default: subscriptions on, CSRF off
InitMessages == InitDefault /\ useCSRF = FALSE

SpecMessages == InitMessages /\ [][NextMessages]_vars

(***************************************************************************)
(* The store pushing payloads: the records are loaded and subscriptions    *)
(* are scheduled and flushed                                               *)
(***************************************************************************)
NextPush ==
    \/ PushPayload
    \/ Subscribe
    \/ Tick
    \/ DebounceTimer
    \/ LoadTimer
    \/ ReadyNext
    \/ IoReady
    \/ RawAppears
    \/ RawConnect

(***************************************************************************)
(* The requests of the application over a socket that connects,            *)
(* disconnects and answers, and a service that can be destroyed            *)
(***************************************************************************)
NextRequests ==
    \/ Request
    \/ WillDestroy
    \/ LoadTimer
    \/ ReadyNext
    \/ WaitTimer
    \/ ConnectNext
    \/ RequestNext
    \/ IoReady
    \/ RawAppears
    \/ RawConnect
    \/ RawConnectFailed
    \/ RawDisconnect
    \/ SocketAnswers

SpecRequests == InitMessages /\ [][NextRequests]_vars

\* the run loop runs every timer and every callback it holds, the script
\* and the raw socket come up, a connecting socket connects when it does
\* not fail, and a connected socket answers
FairRequests ==
    /\ SpecRequests
    /\ WF_vars(LoadTimer)
    /\ WF_vars(ReadyNext)
    /\ WF_vars(WaitTimer)
    /\ WF_vars(ConnectNext)
    /\ WF_vars(RequestNext)
    /\ WF_vars(IoReady)
    /\ WF_vars(RawAppears)
    /\ WF_vars(RawConnect)
    /\ WF_vars(SocketAnswers)

SpecPush == InitMessages /\ [][NextPush]_vars

(***************************************************************************)
(* The serializer normalizing responses while the socket connects and      *)
(* delivers messages                                                       *)
(***************************************************************************)
NextNormalize ==
    \/ NormalizeResponse
    \/ ListenFor
    \/ Request
    \/ LoadTimer
    \/ ReadyNext
    \/ IoReady
    \/ RawAppears
    \/ RawConnect
    \/ RawMessage

SpecNormalize == InitMessages /\ [][NextNormalize]_vars

(***************************************************************************)
(* The flush of the scheduled subscriptions, the subscription feature      *)
(* being enabled or disabled                                               *)
(***************************************************************************)
NextFlush ==
    \/ Subscribe
    \/ Tick
    \/ DebounceTimer
    \/ LoadTimer
    \/ ReadyNext
    \/ IoReady
    \/ RawAppears
    \/ RawConnect

SpecFlush == Init /\ [][NextFlush]_vars

(***************************************************************************)
(* The batches of subscriptions on their way to the server: the token      *)
(* fetch and the subscribe request over a socket that connects and answers *)
(***************************************************************************)
\* store.subscribe, for as many calls as the batches are followed for
SubscribeForBatch == schedules.n < MaxBatchSchedules /\ Subscribe

NextBatches ==
    \/ SubscribeForBatch
    \/ Tick
    \/ DebounceTimer
    \/ LoadTimer
    \/ ReadyNext
    \/ RequestNext
    \/ IoReady
    \/ RawConnect
    \/ SocketAnswers

SpecBatches == InitDefault /\ [][NextBatches]_vars

(***************************************************************************)
(* The socket service re-dispatching the messages of the raw socket        *)
(***************************************************************************)
NextDispatch ==
    \/ Request
    \/ ListenFor
    \/ WillDestroy
    \/ LoadTimer
    \/ ReadyNext
    \/ WaitTimer
    \/ ConnectNext
    \/ IoReady
    \/ RawAppears
    \/ RawConnect
    \/ RawDisconnect
    \/ RawMessage
    \/ RawMessageLate

SpecDispatch == InitMessages /\ [][NextDispatch]_vars

(***************************************************************************)
(* The ajax calls of the adapter over a socket that connects               *)
(***************************************************************************)
NextAjax ==
    \/ Ajax
    \/ ResolvedThen
    \/ LoadTimer
    \/ ReadyNext
    \/ WaitTimer
    \/ ConnectNext
    \/ RequestNext
    \/ IoReady
    \/ RawAppears
    \/ RawConnect
    \/ SocketAnswers

SpecAjax == Init /\ [][NextAjax]_vars

(***************************************************************************)
(* checkCSRF called in the states of the token                             *)
(***************************************************************************)
NextCheck ==
    \/ CheckCSRF
    \/ NextCsrf

SpecCheck == Init /\ [][NextCheck]_vars

(***************************************************************************)
(* CSRF coordination                                                       *)
(***************************************************************************)
CsrfRequests == { r \in 1 .. Len(requests) : requests[r].kind = "csrf" }
OutstandingFetches == OutstandingOf(State, "csrf")
IsError(v) == v[1] = "error"
IsToken(v) == v[1] = "token"
\* the last fetch that was made
LastFetch(r) == r \in CsrfRequests /\ \A q \in CsrfRequests : q <= r
FetchFailed(r) ==
    r \in CsrfRequests /\ requests[r].stage = "done" /\ IsError(requests[r].value)
FetchSucceeded(r) ==
    r \in CsrfRequests /\ requests[r].stage = "done" /\ IsToken(requests[r].value)
AfterFailure == \E r \in CsrfRequests : LastFetch(r) /\ FetchFailed(r)
NumberOfFetches == Cardinality(CsrfRequests)
\* a step that is a call of fetchCSRFToken by the application
CallStep == \E force \in BOOLEAN : Commit(fetchCSRFToken(State, force).s)
ForcedCallStep == Commit(fetchCSRFToken(State, TRUE).s)

\* C1: with useCSRF enabled at most one token fetch is outstanding at any
\* time, and a call of fetchCSRFToken made while a fetch is pending starts no
\* fetch and returns the promise of the pending fetch.
C1_SingleFetchOutstanding ==
    useCSRF =>
        /\ Cardinality(OutstandingFetches) <= 1
        /\ \A c \in csrfCalls : ~c.started /\ c.ret \in c.before

C1_Witness ==
    /\ useCSRF
    /\ Cardinality(OutstandingFetches) = 1
    /\ \E c \in csrfCalls : c.before = OutstandingFetches

\* C2: every call of fetchCSRFToken made before the pending fetch resolves
\* receives the token that fetch resolves with, and after a successful fetch
\* csrfToken holds that token.
C2_SameTokenForAllCallers ==
    /\ \A c \in csrfCalls : \A r \in c.before :
           FetchSucceeded(r) =>
               /\ c.ret # 0
               /\ requests[c.ret].settled = "fulfilled"
               /\ requests[c.ret].value = requests[r].value
    /\ \A r \in CsrfRequests :
           LastFetch(r) /\ FetchSucceeded(r) => csrfToken = requests[r].value

C2_Witness ==
    \E c \in csrfCalls :
        /\ c.ret # 0
        /\ FetchSucceeded(c.ret)
        /\ csrfToken = Token(c.ret)

\* C3: once a token is cached, it stays and no token fetch is started by any
\* step other than an explicit forced fetchCSRFToken call: requests, connects,
\* disconnects and non-forced calls leave the token and the fetches alone.
C3_TokenCachedUntilForced ==
    [][ (Truthy(csrfToken) /\ ~ForcedCallStep) =>
            (csrfToken' = csrfToken /\ NumberOfFetches' = NumberOfFetches) ]_vars

C3_Witness ==
    /\ Truthy(csrfToken)
    /\ isConnected
    /\ connects = 2
    /\ NumberOfFetches = 1

C5_FailureRejects ==
    \A r \in CsrfRequests : FetchFailed(r) => requests[r].settled = "rejected"


(***************************************************************************)
(* Subscription batching                                                   *)
(***************************************************************************)
SubscribeRequests == { r \in 1 .. Len(requests) : requests[r].kind = "subscribe" }
\* all the _scheduleSubscribe calls made so far were for one model and id,
\* each less than the debounce delay after the one before
Burst ==
    /\ schedules.n >= 1
    /\ Cardinality(schedules.targets) = 1
    /\ inWindow
BurstTarget == CHOOSE target \in schedules.targets : TRUE
\* nothing of the scheduled subscriptions is still on its way to a request
FlushComplete ==
    /\ debounceLeft = -1
    /\ IsNull(scheduledSubscriptions)
    /\ thens = << >>
ListsOnce(r) ==
    requests[r].payload.models =
        [k \in {BurstTarget[1]} |-> << BurstTarget[2] >>]

\* C6: the calls of _scheduleSubscribe for one model and id, each less than
\* 50 ms after the one before, produce exactly one subscribe request, whose
\* payload lists the id once under the model's key.
C6_OneBatchedRequest ==
    (subscribeEnabled /\ Burst) =>
        /\ Cardinality(SubscribeRequests) <= 1
        /\ \A r \in SubscribeRequests : ListsOnce(r)
        /\ FlushComplete => Cardinality(SubscribeRequests) = 1


(***************************************************************************)
(* Socket connection lifecycle                                             *)
(***************************************************************************)
\* C7: no socket is created and no load polling is started before the first
\* request, and io.sails.connect is called at most once whatever the
\* requests, disconnects and reconnects.
C7_SingleLazyConnection ==
    /\ connectCalls <= 1
    /\ requests = << >> =>
           /\ sailsSocket = "null"
           /\ ~raw.present
           /\ connectCalls = 0
           /\ loadTimers = 0
           /\ readyNext = 0

C7_Witness ==
    /\ connectCalls = 1
    /\ connects = 2
    /\ isConnected
    /\ Len(requests) >= 2

\* C8: the service starts not initialized and not connected, it is connected
\* only when it is initialized, and once initialized it stays initialized.
C8_Lifecycle ==
    /\ ~isInitialized /\ ~isConnected
    /\ [][ /\ isConnected' => isInitialized'
           /\ isInitialized => isInitialized' ]_vars

C8_Witness ==
    /\ isInitialized
    /\ ~isConnected
    /\ connects >= 1

\* C9: whenever the service is connected, and so after a connect, a
\* disconnect and a connect, every event registered with listenFor(event,
\* true) and not removed since has its listener on the current raw socket.
C9_ListenersReattached ==
    isConnected =>
        \A e \in Events :
            listeners[e] # "none" =>
                listeners[e] = "listening" /\ rawListeners[e] >= 1

C9_Witness ==
    /\ isConnected
    /\ alive
    /\ connects = 2
    /\ \E e \in Events : listeners[e] = "listening" /\ rawListeners[e] = 1

(***************************************************************************)
(* Inbound messages                                                        *)
(***************************************************************************)
modelOfEvent(event) == CHOOSE m \in ModelNames : eventNameOf(m) = event
\* the record a created or updated message carries
recordOf(d) == IF d.dataId = 0 /\ d.id # 0 THEN d.id ELSE d.dataId
\* a step that delivers a message of a model the adapter listens to
ListenedMessageStep == RawMessage /\ handlers[lastDispatch'.event] # << >>
OthersUntouched(type, id) ==
    \A r \in DOMAIN store : r # << type, id >> => store'[r] = store[r]

\* C10: a message of a model the adapter listens to, with verb created or
\* updated, makes exactly one pushPayload of the one record under the
\* pluralized camelized model name and no unload; with verb destroyed it
\* unloads the loaded record that has the id of the message and pushes
\* nothing; no other record of the store changes.
C10_MessageDispatch ==
    [][ ListenedMessageStep =>
          LET d == lastDispatch'
              type == modelOfEvent(d.event)
          IN  /\ d.verb \in {"created", "updated"} =>
                     /\ d.pushes = << [key |-> pluralize(camelize(type)),
                                       records |-> << recordOf(d) >>] >>
                     /\ d.unloads = << >>
                     /\ OthersUntouched(type, recordOf(d))
              /\ d.verb = "destroyed" =>
                     /\ d.pushes = << >>
                     /\ OthersUntouched(type, d.id)
                     /\ (d.id # 0 /\ store[<< type, d.id >>] # "absent") =>
                            /\ d.unloads = << << type, d.id >> >>
                            /\ store'[<< type, d.id >>] = "absent" ]_vars


(***************************************************************************)
(* Re-dispatch of raw socket messages                                      *)
(***************************************************************************)
\* a step in which the raw socket delivers a message
MessageStep == RawMessage \/ RawMessageLate
ExpectedName(d) == IF d.verb = "none" THEN d.event ELSE d.event \o << ".", d.verb >>

\* C11: a message the raw socket delivers on event E is triggered by the
\* service exactly once, under the name E.verb when it has a verb and under
\* the name E when it has none; a destroyed service triggers nothing.
C11_OneEventPerMessage ==
    [][ MessageStep =>
          LET d == lastDispatch'
          IN  /\ alive => d.triggered = << ExpectedName(d) >>
              /\ ~alive => d.triggered = << >> ]_vars

C11_Witness ==
    /\ alive
    /\ lastDispatch.verb = "destroyed"
    /\ Len(lastDispatch.event) = 6
    /\ lastDispatch.triggered =
           << << "d", "o", "g", "t", "a", "g", ".", "destroyed" >> >>

C11_WitnessDestroyed ==
    /\ ~alive
    /\ lastDispatch.event # << >>
    /\ lastDispatch.triggered = << >>

(***************************************************************************)
(* ajax                                                                    *)
(***************************************************************************)
AjaxCalls == 1 .. Len(ajaxCalls)
\* ajax call a is handed to the transport in this step
HandedOver(a) ==
    /\ a \in 1 .. Len(ajaxCalls')
    /\ ajaxCalls'[a].rid # 0
    /\ a \in AjaxCalls => ajaxCalls[a].rid = 0
NoFetchOutstanding == OutstandingFetches = {}

\* C12: with useCSRF, an ajax call with a method other than GET is handed to
\* the transport only when no token fetch is outstanding, and its data then
\* has _csrf equal to the current csrfToken, which is not empty.
C12_TokenBeforeTransport ==
    [][ \A a \in 1 .. Len(ajaxCalls') :
          (useCSRF /\ HandedOver(a) /\ ajaxCalls'[a].method # GET) =>
              /\ NoFetchOutstanding'
              /\ Truthy(csrfToken')
              /\ ajaxCalls'[a].sent.options.data.csrf = csrfToken'
              /\ requests'[ajaxCalls'[a].rid].payload.csrf = csrfToken' ]_vars

C12_Witness ==
    \E a \in AjaxCalls :
        /\ useCSRF
        /\ ajaxCalls[a].method = << "P", "O", "S", "T" >>
        /\ ajaxCalls[a].fetch = "started"
        /\ ajaxCalls[a].rid # 0
        /\ ajaxCalls[a].sent.options.data.csrf = csrfToken

\* the calls that need no token: GET, or useCSRF disabled
NeedsNoToken(a) == ajaxCalls[a].method = GET \/ ~useCSRF
Sent(a) == ajaxCalls[a].rid # 0
GivenOptions(a) ==
    IF ajaxCalls[a].given.given THEN ajaxCalls[a].given ELSE EmptyOptions
\* the transport has answered call a with a body that is no Sails error
PlainAnswer(a) ==
    /\ Sent(a)
    /\ requests[ajaxCalls[a].rid].stage = "done"
    /\ requests[ajaxCalls[a].rid].settled = "fulfilled"
    /\ requests[ajaxCalls[a].rid].value = Data
NoFetchAndSameUrlAndMethod(a) ==
    /\ ajaxCalls[a].fetch = "none"
    /\ Sent(a) =>
           /\ ajaxCalls[a].sent.url = ajaxCalls[a].url
           /\ ajaxCalls[a].sent.method =
                  upperCaseString(ajaxCalls[a].givenMethod)
    /\ PlainAnswer(a) =>
           /\ ajaxCalls[a].settled = "fulfilled"
           /\ ajaxCalls[a].value = Data

C14_CheckCSRF ==
    lastCheck.called =>
        /\ ~lastCheck.useCSRF =>
               /\ ~lastCheck.threw
               /\ lastCheck.returned = lastCheck.given.ref
               /\ lastCheck.data = lastCheck.given
        /\ (lastCheck.useCSRF /\ ~Truthy(lastCheck.token)) =>
               /\ lastCheck.threw
               /\ lastCheck.data = lastCheck.given
        /\ (lastCheck.useCSRF /\ Truthy(lastCheck.token)) =>
               /\ ~lastCheck.threw
               /\ lastCheck.returned = lastCheck.given.ref
               /\ lastCheck.data =
                      [lastCheck.given EXCEPT !.csrf = lastCheck.token]

C14_Witness ==
    /\ lastCheck.called
    /\ lastCheck.useCSRF
    /\ IsToken(lastCheck.token)
    /\ lastCheck.data.csrf = lastCheck.token
    /\ lastCheck.returned = 1

C16_ErrorMapping ==
    \A a \in AjaxCalls :
        (Sent(a) /\ requests[ajaxCalls[a].rid].stage = "done") =>
            LET answer == requests[ajaxCalls[a].rid]
                call == ajaxCalls[a]
            IN  /\ (answer.settled = "fulfilled"
                       /\ answer.value = Response(31)) =>
                       /\ call.settled = "rejected"
                       /\ call.value = << "invalid", 31 >>
                /\ (answer.settled = "fulfilled"
                       /\ answer.value = Response(15)) =>
                       /\ call.settled = "rejected"
                       /\ call.value = answer.value
                /\ (answer.settled = "fulfilled"
                       /\ answer.value \in {Data, Response(23)}) =>
                       /\ call.settled = "fulfilled"
                       /\ call.value = answer.value
                /\ answer.settled = "rejected" =>
                       /\ call.settled = "rejected"
                       /\ call.value = answer.value

C16_Witness ==
    \E a \in AjaxCalls :
        /\ Sent(a)
        /\ requests[ajaxCalls[a].rid].value = Response(31)
        /\ ajaxCalls[a].settled = "rejected"
        /\ ajaxCalls[a].value = << "invalid", 31 >>

(***************************************************************************)
(* Requests and listeners of the socket service                            *)
(***************************************************************************)
\* C17: the socket method of a request is called only in a state where
\* isConnected is true.
C17_SentOnlyConnected ==
    \A r \in 1 .. Len(requests) :
        requests[r].stage = "sent" => requests[r].sentConnected

Registered(s, event) == s.listeners[event] # "none"

\* C18: listenFor returns true exactly when it registers an event that was
\* not registered or removes one that was; otherwise the registry and the
\* listeners of the raw socket stay as they are. After listenFor(event,
\* false) the event is not registered and the raw socket has no listener for
\* it, and an event that is not registered has no listener on the raw
\* socket, whatever connects came after.
C18_ListenForResult ==
    /\ \A event \in Events, listen \in BOOLEAN :
           LET r == listenFor(State, event, listen)
           IN  /\ r.ret = (listen # Registered(State, event))
               /\ ~r.ret => /\ r.s.listeners = listeners
                            /\ r.s.rawListeners = rawListeners
               /\ r.ret => Registered(r.s, event) = listen
               /\ ~listen => /\ ~Registered(r.s, event)
                             /\ r.s.rawListeners[event] = 0
    /\ \A event \in Events :
           ~Registered(State, event) => rawListeners[event] = 0

C18_Witness ==
    /\ isConnected
    /\ alive
    /\ connects = 2
    /\ \E e \in Events :
           /\ listeners[e] = "listening"
           /\ rawListeners[e] = 1
           /\ listenFor(State, e, FALSE).ret
           /\ listenFor(State, e, FALSE).s.rawListeners[e] = 0
           /\ ~listenFor(State, e, TRUE).ret
    /\ \E e \in Events : listeners[e] = "none" /\ rawListeners[e] = 0

(***************************************************************************)
(* The subscriptions made by the store and by the adapter                  *)
(***************************************************************************)
RECURSIVE WithId(_)
WithId(records) ==
    IF records = << >> THEN 0
    ELSE (IF Head(records) # 0 THEN 1 ELSE 0) + WithId(Tail(records))

\* C19: a pushPayload whose trailing boolean is false or omitted schedules
\* no subscription; one whose trailing boolean is true schedules one for
\* each pushed record that has an id and whose adapter is the socket adapter.
C19_TrailingBooleanDecides ==
    [][\A type \in ModelNames, records \in Payloads,
          subscribe \in TrailingArguments, socketAdapter \in BOOLEAN :
           PushPayloadOf(type, records, subscribe, socketAdapter) =>
               /\ schedules'.n = schedules.n +
                      (IF subscribe = "true" /\ socketAdapter
                       THEN WithId(records) ELSE 0)
               /\ subscribe # "true" =>
                      scheduledSubscriptions' = scheduledSubscriptions]_vars

\* C20: when subscribeMethod or subscribeEndpoint is null, a flush of the
\* scheduled subscriptions sends no request over the socket and starts no
\* fetch of the CSRF token.
C20_DisabledFlushSendsNothing ==
    [][(DebounceTimer /\ ~subscribeEnabled) =>
           /\ requests' = requests
           /\ csrfTokenLoadingPromise' = csrfTokenLoadingPromise
           /\ thens' = thens
           /\ raw' = raw]_vars

C20_Witness ==
    /\ subscribeMethod = Null
    /\ subscribeEndpoint = SocketSubscribe
    /\ flushes >= 1
    /\ \E e \in Events : listeners[e] # "none"
    /\ requests = << >>
    /\ csrfTokenLoadingPromise = 0

(***************************************************************************)
(* The serializer                                                          *)
(***************************************************************************)
\* C21: normalizeResponse registers the socket listening of a model only
\* when the adapter of the model is the socket adapter; for any other
\* adapter it registers nothing and the response is normalized.
C21_ListensOnlyForSocketAdapter ==
    [][\A model \in ModelNames, adapter \in AdapterKinds :
           (NormalizeResponseOf(model, adapter) /\ adapter # "socket") =>
               /\ listeners' = listeners
               /\ handlers' = handlers
               /\ rawListeners' = rawListeners
               /\ ~lastNormalize'.threw
               /\ lastNormalize'.normalized]_vars

(***************************************************************************)
(* The pending operations of the socket service                            *)
(***************************************************************************)
\* the request() calls whose promise has not settled
Unsettled == { r \in 1 .. Len(requests) : requests[r].stage # "done" }

\* C22: pendingOperationCount is the number of request() calls whose
\* promise has not settled and is never negative; isBusy is false exactly
\* when the service is initialized and the count is 0.
C22_PendingOperationCount ==
    /\ pendingOperationCount = Cardinality(Unsettled)
    /\ pendingOperationCount >= 0
    /\ ~isBusy(State) <=> (isInitialized /\ pendingOperationCount = 0)

C22_Witness ==
    /\ Len(requests) >= 2
    /\ requests[1].settled = "fulfilled"
    /\ requests[2].settled = "rejected"
    /\ requests[2].value = DestroyedError
    /\ pendingOperationCount = 0
    /\ ~isBusy(State)

RequestIds == 1 .. MaxUserRequests
Made(r) == Len(requests) >= r
Settled(r) == Made(r) /\ requests[r].stage = "done"

\* the socket eventually connects or the service is destroyed
EventuallyConnects ==
    [](waitingForSockets # << >> => <>(isConnected \/ ~alive))

\* the socket answers every call it receives
EveryCallAnswered ==
    \A r \in RequestIds :
        []((Made(r) /\ requests[r].stage = "sent") => <>Settled(r))

\* C23: when the socket eventually connects or the service is destroyed,
\* and the socket answers every call it receives, every request eventually
\* settles and pendingOperationCount eventually returns to 0, also for the
\* requests that wait for a connection when the service is destroyed.
C23_EveryRequestSettles ==
    (EventuallyConnects /\ EveryCallAnswered) =>
        /\ \A r \in RequestIds : [](Made(r) => <>Settled(r))
        /\ []<>(pendingOperationCount = 0)

(***************************************************************************)
(* The callbacks waiting for the connected socket                          *)
(***************************************************************************)
\* a _connectedSocket call made while the service is alive and not connected
WaitingCall == Request /\ alive /\ ~isConnected

\* the socket connects and its connect event reaches the service
ConnectStep == ConnectNext \/ (RawConnect /\ raw.handlers)

NoAttempt ==
    /\ loadTimers' = loadTimers
    /\ readyNext' = readyNext
    /\ waitTimers' = waitTimers
    /\ connectNext' = connectNext
    /\ raw' = raw
    /\ connectCalls' = connectCalls

OneAttempt ==
    \/ ~isInitialized /\ loadTimers' + readyNext' = loadTimers + readyNext + 1
                      /\ raw' = raw
    \/ isInitialized /\ loadTimers' = loadTimers /\ readyNext' = readyNext
                     /\ connectCalls' = connectCalls
                     /\ \/ raw' = raw
                        \/ /\ ~raw.connecting
                           /\ raw' = [NewRaw EXCEPT !.handlers = TRUE]

\* of the _connectedSocket calls made while the socket is not connected,
\* the first one starts one load or reconnect attempt and the later ones
\* start nothing; there is one one-shot handler exactly while callbacks
\* wait; no callback is called twice
WaitingCalls ==
    /\ [](didConnectOnce = IF waitingForSockets = << >> THEN 0 ELSE 1)
    /\ [](\A i, j \in 1 .. Len(invoked) : invoked[i] = invoked[j] => i = j)
    /\ [][WaitingCall =>
             /\ waitingForSockets' =
                    Append(waitingForSockets, Len(requests'))
             /\ IF waitingForSockets = << >> THEN OneAttempt
                ELSE NoAttempt]_vars

\* a connect calls every waiting callback, in the order of the calls, and
\* leaves the waiting list empty
ConnectFlushes ==
    ConnectStep =>
        /\ waitingForSockets' = << >>
        /\ didConnectOnce' = 0
        /\ invoked' = invoked \o waitingForSockets
        /\ \A i \in 1 .. Len(waitingForSockets) :
               requests'[waitingForSockets[i]].stage = "sent"

\* while the service is alive the calls and the connects are as C24 says
WaitingCallbacksWhileAlive ==
    WaitingCalls /\ [][alive => ConnectFlushes]_vars

\* C24: of the _connectedSocket calls made while the socket is not
\* connected, the first one starts one load or reconnect attempt and
\* registers the one-shot didConnect handler, the later ones start nothing
\* and register nothing; at the next connect every waiting callback is
\* called once, in the order of the calls, and the waiting list is empty
\* afterwards.
C24_WaitingCallbacks == WaitingCalls /\ [][ConnectFlushes]_vars

(***************************************************************************)
(* The batches of the scheduled subscriptions                              *)
(***************************************************************************)
\* C25: with the subscription feature enabled, no batch of accepted ids is
\* given up before it is sent, whatever the outcome of the token fetch
\* that precedes the subscribe request.
C25_NoAcceptedIdDropped == subscribeEnabled => dropped = {}

\* a flush that takes a batch
FlushStep ==
    DebounceTimer /\ ~IsNull(scheduledSubscriptions) /\ subscribeEnabled

\* the ids pending, grouped per model as the payload lists them
Pending ==
    [k \in DOMAIN scheduledSubscriptions |->
       ObjectKeys(scheduledSubscriptions[k])]

\* the batches taken: those that wait for the token and those sent
Waiting(th) == [i \in 1 .. Len(th) |-> th[i].payload.models]
SentIn(reqs) ==
    [r \in { q \in 1 .. Len(reqs) : reqs[q].kind = "subscribe" } |->
       reqs[r].payload.models]

\* the batches taken before the step are as they were
TakenUntouched ==
    /\ \A i \in 1 .. Len(thens) :
           \/ i <= Len(thens') /\ thens'[i] = thens[i]
           \/ thens[i] \notin { thens'[j] : j \in 1 .. Len(thens') }
    /\ \A r \in DOMAIN SentIn(requests) :
           SentIn(requests')[r] = SentIn(requests)[r]

\* C26: a flush empties the pending set and its payload lists exactly the
\* ids that were pending, per model; an id scheduled afterwards joins the
\* pending set of a later batch and no batch already taken, waiting for the
\* token or sent, is changed by it; a batch is sent as it was taken.
C26_FlushTakesWholeSet ==
    [][/\ FlushStep =>
            /\ IsNull(scheduledSubscriptions')
            /\ TakenUntouched
            /\ \/ /\ Len(thens') = Len(thens) + 1
                  /\ Waiting(thens')[Len(thens')] = Pending
                  /\ SentIn(requests') = SentIn(requests)
               \/ /\ thens' = thens
                  /\ DOMAIN SentIn(requests') =
                         DOMAIN SentIn(requests) \cup {Len(requests')}
                  /\ Len(requests') = Len(requests) + 1
                  /\ SentIn(requests')[Len(requests')] = Pending
       /\ \A type \in ModelNames, id \in Ids :
              (Step(scheduleSubscribe(State, type, id)) /\ id # 0) =>
                  /\ thens' = thens
                  /\ requests' = requests
                  /\ camelize(type) \in DOMAIN scheduledSubscriptions'
                  /\ id \in DOMAIN scheduledSubscriptions'[camelize(type)]
                  /\ \A k \in DOMAIN scheduledSubscriptions :
                         /\ k \in DOMAIN scheduledSubscriptions'
                         /\ DOMAIN scheduledSubscriptions[k] \subseteq
                                DOMAIN scheduledSubscriptions'[k]
       /\ ~FlushStep =>
              \A r \in DOMAIN SentIn(requests') \ DOMAIN SentIn(requests) :
                  \E i \in 1 .. Len(thens) :
                      /\ Waiting(thens)[i] = SentIn(requests')[r]
                      /\ thens[i] \notin { thens'[j] : j \in 1 .. Len(thens') }
      ]_vars

\* a batch waits for the token as it was taken while a different set,
\* scheduled after the flush, is pending
C26_Witness ==
    /\ useCSRF
    /\ Len(thens) = 1
    /\ ~IsNull(scheduledSubscriptions)
    /\ Pending # Waiting(thens)[1]

\* the id is in the pending set of the model
IsPending(type, id) ==
    /\ camelize(type) \in DOMAIN scheduledSubscriptions
    /\ id \in DOMAIN scheduledSubscriptions[camelize(type)]

\* C27: scheduling a (model, id) that is already pending leaves the pending
\* set as it is and does not restart the debounce timer.
C27_PendingIdChangesNothing ==
    [][\A type \in ModelNames, id \in Ids :
           (IsPending(type, id) /\ Step(scheduleSubscribe(State, type, id))) =>
               /\ scheduledSubscriptions' = scheduledSubscriptions
               /\ debounceLeft' = debounceLeft]_vars

=============================================================================
